---- MODULE Spec2Model ----
(***************************************************************************)
(* State-machine model of the blog API of src/main.py: the users and posts *)
(* tables, the JSON route handlers over them, and the request bodies of    *)
(* src/schemas.py.  One action per route handler; a handler runs from the   *)
(* first query to its commit (or to the HTTPException it raises) in one    *)
(* step under Spec.  SpecConc splits create_user at its database calls, to *)
(* interleave two requests.                                                *)
(***************************************************************************)
EXTENDS Integers, FiniteSets, Sequences, TLC

VARIABLES
    users,   \* rows of the users table: [id, username, email, image_file]
    posts,   \* rows of the posts table: [id, title, content, user_id]
    req,     \* the last request handled (route and parsed body)
    resp,    \* the response to it
    pre,     \* the tables and the history as they were when req arrived
    hist,    \* history of the requests answered so far
    pc,      \* SpecConc: the position of each in-flight create_user
    creq,    \* SpecConc: the body of each in-flight create_user
    cresp    \* SpecConc: the status each in-flight create_user returned

vars == <<users, posts, req, resp, pre, hist, pc, creq, cresp>>

----------------------------------------------------------------------------
(* Bounds of the model *)

MaxUserId == 2
MaxPostId == 1
NumProcs == 2

UserIds == 1..MaxUserId
PostIds == 1..MaxPostId
Procs == 1..NumProcs

Usernames == {"alice", "bob"}
Emails == {"a@x.io", "b@x.io"}
ImageFiles == {"pic.png"}
Titles == {"t1", "t2"}
Contents == {"c1"}

(* Python None, and a field the request body does not mention *)
NULL == "NULL"
UNSET == "UNSET"

----------------------------------------------------------------------------
(* Status codes used by the handlers *)

HTTP_200_OK == 200
HTTP_201_CREATED == 201
HTTP_203_NON_AUTHORITATIVE_INFORMATION == 203
HTTP_204_NO_CONTENT == 204
HTTP_400_BAD_REQUEST == 400
HTTP_404_NOT_FOUND == 404
HTTP_409_CONFLICT == 409

----------------------------------------------------------------------------
(* Request bodies (src/schemas.py), already validated *)

\* UserCreate: username, email (the password is validated and never stored)
UserCreate == [username : Usernames, email : Emails]

\* UserUpdate as sent: each field a value, an explicit null, or left out
UserUpdateBody ==
    [username : Usernames \cup {NULL, UNSET},
     email : Emails \cup {NULL, UNSET},
     image_file : ImageFiles \cup {NULL, UNSET}]

\* A UserUpdate field as the handler reads it: default=None when left out
FieldOrDefault(v) == IF v = UNSET THEN NULL ELSE v

UserUpdate(body) ==
    [username |-> FieldOrDefault(body.username),
     email |-> FieldOrDefault(body.email),
     image_file |-> FieldOrDefault(body.image_file)]

\* PostCreate: title, content, user_id
PostCreate == [title : Titles, content : Contents, user_id : UserIds]

\* PostUpdate as sent: each field a value or left out
PostUpdateBody == [title : Titles \cup {UNSET}, content : Contents \cup {UNSET}]

\* model_dump(exclude_unset=True): the fields the body mentions
model_dump_exclude_unset(body) == {f \in DOMAIN body : body[f] # UNSET}

----------------------------------------------------------------------------
(* The persistence layer *)

\* A lookup that forgets its where clause
SelectUserById_NoWhere(rows, user_id) == rows

\* select(models.User).where(models.User.id == user_id)
SelectUserById(rows, user_id) == {u \in rows : u.id = user_id}

\* A username lookup that never finds a row
SelectUserByUsername_Empty(rows, username) == {}

\* select(models.User).where(models.User.username == username)
SelectUserByUsername(rows, username) == {u \in rows : u.username = username}

\* An email lookup that never finds a row
SelectUserByEmail_Empty(rows, email) == {}

\* select(models.User).where(models.User.email == email)
SelectUserByEmail(rows, email) == {u \in rows : u.email = email}

\* select(models.Post).where(models.Post.id == post_id)
SelectPostById(rows, post_id) == {p \in rows : p.id = post_id}

\* select(models.Post).where(models.Post.user_id == user_id)
SelectPostsByUserId(rows, user_id) == {p \in rows : p.user_id = user_id}

\* Server-generated primary keys: any identifier no stored row carries
NewIds(rows, ids) == {i \in ids : \A r \in rows : r.id # i}

\* An insert that silently drops a row whose username or email is stored
Insert_Unique(rows, row) ==
    IF \E r \in rows : r.username = row.username \/ r.email = row.email
    THEN rows ELSE rows \cup {row}

\* db.add(row); db.commit(): the table takes the row as given
Insert(rows, row) == rows \cup {row}

\* A delete that is never committed
Delete_NoCommit(rows, row) == rows

\* db.delete(row); db.commit(): the row leaves its own table
Delete(rows, row) == rows \ {row}

\* db.commit() after attribute assignments on a loaded row
Update(rows, old, new) == (rows \ {old}) \cup {new}


\* Column default of a new user's image_file
DefaultImageFile == NULL

\* What deleting a user row does to the posts table: nothing
PostsAfterUserDelete(rows, user) == rows

----------------------------------------------------------------------------
(* Requests, responses, and the record kept of them *)

BlankReq ==
    [op |-> "none", id |-> 0, username |-> UNSET, email |-> UNSET,
     image_file |-> UNSET, title |-> UNSET, content |-> UNSET, user_id |-> 0]

\* A handler's return value, serialised under its status_code
Returns(status, id, userRows, postRows) ==
    [status |-> status, raised |-> FALSE, id |-> id,
     users |-> userRows, posts |-> postRows]

\* An HTTPException on an /api path: a JSON body under the exception's status
general_http_exception_handler(status_code) ==
    [status |-> status_code, raised |-> TRUE, id |-> 0, users |-> {}, posts |-> {}]

\* PostResponse.model_validate(post): the nested author is required
ValidPostResponse(post, userRows) == SelectUserById(userRows, post.user_id) # {}

\* A response model that fails to validate is an internal server error
ResponseFor(status, id, postRows, userRows) ==
    IF \A p \in postRows : ValidPostResponse(p, userRows)
    THEN Returns(status, id, {}, postRows)
    ELSE [status |-> 500, raised |-> TRUE, id |-> 0, users |-> {}, posts |-> {}]

\* The history kept of the requests answered: the owner each stored post was
\* created with; under SpecNames the usernames and emails that successful
\* create_user requests carried; under SpecDeleted the ids deleted since the
\* last successful create of their kind
NoHist ==
    [recording |-> "owners", usedUsernames |-> {}, usedEmails |-> {},
     goneUsers |-> {}, gonePosts |-> {}, createdOwner |-> {}]

Recorded(h) ==
    [recording |-> hist.recording,
     usedUsernames |-> IF hist.recording = "names"
                       THEN h.usedUsernames ELSE hist.usedUsernames,
     usedEmails |-> IF hist.recording = "names"
                    THEN h.usedEmails ELSE hist.usedEmails,
     goneUsers |-> IF hist.recording = "deleted"
                   THEN h.goneUsers ELSE hist.goneUsers,
     gonePosts |-> IF hist.recording = "deleted"
                   THEN h.gonePosts ELSE hist.gonePosts,
     createdOwner |-> h.createdOwner]

Snapshot == [users |-> users, posts |-> posts, hist |-> hist]

NoResp == [status |-> 0, raised |-> FALSE, id |-> 0, users |-> {}, posts |-> {}]

NoSnapshot == [users |-> {}, posts |-> {}, hist |-> NoHist]

\* No request is being handled: requests are handled one at a time
Idle == req.op = "none"

Answer(request, response) ==
    /\ req' = request
    /\ resp' = response
    /\ pre' = Snapshot
    /\ UNCHANGED <<pc, creq, cresp>>

\* A handler that raises before its commit point
Raises(request, status_code) ==
    /\ Answer(request, general_http_exception_handler(status_code))
    /\ UNCHANGED <<users, posts, hist>>

----------------------------------------------------------------------------
(* User routes *)

\* POST /api/users
create_user(user) ==
    /\ Idle
    /\ LET request == [BlankReq EXCEPT !.op = "create_user",
                           !.username = user.username, !.email = user.email]
           existing_username == SelectUserByUsername(users, user.username)
           existing_email == SelectUserByEmail(users, user.email)
       IN  IF existing_username # {} THEN Raises(request, HTTP_409_CONFLICT)
           ELSE IF existing_email # {} THEN Raises(request, HTTP_409_CONFLICT)
           ELSE \E id \in NewIds(users, UserIds) :
               LET new_user == [id |-> id, username |-> user.username,
                                email |-> user.email, image_file |-> DefaultImageFile]
               IN  /\ users' = Insert(users, new_user)
                   /\ posts' = posts
                   /\ hist' = Recorded([hist EXCEPT
                           !.usedUsernames = @ \cup {user.username},
                           !.usedEmails = @ \cup {user.email},
                           !.goneUsers = {}])
                   /\ Answer(request, Returns(HTTP_201_CREATED, id, {new_user}, {}))

\* The new username differs from the stored one and another row carries it
UsernameExists(rows, user, user_update) ==
    /\ user_update.username # NULL
    /\ user_update.username # user.username
    /\ SelectUserByUsername(rows, user_update.username) # {}

\* The new email differs from the stored one and another row carries it
EmailExists(rows, user, user_update) ==
    /\ user_update.email # NULL
    /\ user_update.email # user.email
    /\ SelectUserByEmail(rows, user_update.email) # {}

\* Assignments that do not test for None
ApplyUserUpdate_Unconditional(user, user_update) ==
    [id |-> user.id, username |-> user_update.username,
     email |-> user_update.email, image_file |-> user_update.image_file]

\* The attribute assignments of update_user
ApplyUserUpdate(user, user_update) ==
    [id |-> user.id,
     username |-> IF user_update.username # NULL
                  THEN user_update.username ELSE user.username,
     email |-> IF user_update.email # NULL
               THEN user_update.email ELSE user.email,
     image_file |-> IF user_update.image_file # NULL
                    THEN user_update.image_file ELSE user.image_file]

\* PATCH /api/users/{user_id}
update_user(user_id, body) ==
    /\ Idle
    /\ LET request == [BlankReq EXCEPT !.op = "update_user", !.id = user_id,
                           !.username = body.username, !.email = body.email,
                           !.image_file = body.image_file]
           user_update == UserUpdate(body)
           found == SelectUserById(users, user_id)
       IN  IF found = {} THEN Raises(request, HTTP_404_NOT_FOUND)
           ELSE LET user == CHOOSE u \in found : TRUE IN
               IF UsernameExists(users, user, user_update)
               THEN Raises(request, HTTP_400_BAD_REQUEST)
               ELSE IF EmailExists(users, user, user_update)
               THEN Raises(request, HTTP_400_BAD_REQUEST)
               ELSE LET updated == ApplyUserUpdate(user, user_update) IN
                   /\ users' = Update(users, user, updated)
                   /\ UNCHANGED <<posts, hist>>
                   /\ Answer(request, Returns(HTTP_200_OK, user_id, {updated}, {}))

\* DELETE /api/users/{user_id}
delete_user(user_id) ==
    /\ Idle
    /\ LET request == [BlankReq EXCEPT !.op = "delete_user", !.id = user_id]
           found == SelectUserById(users, user_id)
       IN  IF found = {} THEN Raises(request, HTTP_404_NOT_FOUND)
           ELSE LET user == CHOOSE u \in found : TRUE IN
               /\ users' = Delete(users, user)
               /\ posts' = PostsAfterUserDelete(posts, user)
               /\ hist' = Recorded([hist EXCEPT !.goneUsers = @ \cup {user_id}])
               /\ Answer(request, Returns(HTTP_204_NO_CONTENT, 0, {}, {}))

\* GET /api/users/{user_id}
get_user(user_id) ==
    /\ Idle
    /\ LET request == [BlankReq EXCEPT !.op = "get_user", !.id = user_id]
           found == SelectUserById(users, user_id)
       IN  IF found = {} THEN Raises(request, HTTP_404_NOT_FOUND)
           ELSE /\ Answer(request, Returns(HTTP_200_OK, user_id, found, {}))
                /\ UNCHANGED <<users, posts, hist>>

\* GET /api/users/{user_id}/posts
get_user_posts(user_id) ==
    /\ Idle
    /\ LET request == [BlankReq EXCEPT !.op = "get_user_posts", !.id = user_id]
           found == SelectUserById(users, user_id)
       IN  IF found = {} THEN Raises(request, HTTP_404_NOT_FOUND)
           ELSE /\ Answer(request,
                       ResponseFor(HTTP_200_OK, 0,
                                   SelectPostsByUserId(posts, user_id), users))
                /\ UNCHANGED <<users, posts, hist>>

----------------------------------------------------------------------------
(* Post routes *)

\* GET /api/posts
get_posts ==
    /\ Idle
    /\ Answer([BlankReq EXCEPT !.op = "get_posts"],
              ResponseFor(HTTP_200_OK, 0, posts, users))
    /\ UNCHANGED <<users, posts, hist>>

\* GET /api/posts/{post_id}
get_post(post_id) ==
    /\ Idle
    /\ LET request == [BlankReq EXCEPT !.op = "get_post", !.id = post_id]
           found == SelectPostById(posts, post_id)
       IN  IF found # {}
           THEN /\ Answer(request, ResponseFor(HTTP_200_OK, post_id, found, users))
                /\ UNCHANGED <<users, posts, hist>>
           ELSE Raises(request, HTTP_404_NOT_FOUND)

\* create_post without its "User not found" check
create_post_Unchecked(post) ==
    /\ Idle
    /\ \E id \in NewIds(posts, PostIds) :
        LET new_post == [id |-> id, title |-> post.title,
                         content |-> post.content, user_id |-> post.user_id]
        IN  /\ posts' = Insert(posts, new_post)
            /\ users' = users
            /\ hist' = Recorded([hist EXCEPT
                    !.gonePosts = {},
                    !.createdOwner = @ \cup {[id |-> id, user_id |-> post.user_id]}])
            /\ Answer([BlankReq EXCEPT !.op = "create_post", !.title = post.title,
                           !.content = post.content, !.user_id = post.user_id],
                      ResponseFor(HTTP_201_CREATED, id, {new_post}, users))

\* POST /api/posts
create_post(post) ==
    /\ Idle
    /\ LET request == [BlankReq EXCEPT !.op = "create_post", !.title = post.title,
                           !.content = post.content, !.user_id = post.user_id]
           user == SelectUserById(users, post.user_id)
       IN  IF user = {} THEN Raises(request, HTTP_404_NOT_FOUND)
           ELSE \E id \in NewIds(posts, PostIds) :
               LET new_post == [id |-> id, title |-> post.title,
                                content |-> post.content, user_id |-> post.user_id]
               IN  /\ posts' = Insert(posts, new_post)
                   /\ users' = users
                   /\ hist' = Recorded([hist EXCEPT
                           !.gonePosts = {},
                           !.createdOwner = @ \cup {[id |-> id, user_id |-> post.user_id]}])
                   /\ Answer(request,
                             ResponseFor(HTTP_201_CREATED, id, {new_post}, users))

\* An author check that never fires
NotAuthor_Never(post, post_data) == FALSE

\* "Is clint author of post"
NotAuthor(post, post_data) == post_data.user_id # post.user_id

\* PUT /api/posts/{post_id}
update_post_full(post_id, post_data) ==
    /\ Idle
    /\ LET request == [BlankReq EXCEPT !.op = "update_post_full", !.id = post_id,
                           !.title = post_data.title, !.content = post_data.content,
                           !.user_id = post_data.user_id]
           found == SelectPostById(posts, post_id)
           user == SelectUserById(users, post_data.user_id)
       IN  IF found = {} THEN Raises(request, HTTP_404_NOT_FOUND)
           ELSE IF user = {} THEN Raises(request, HTTP_404_NOT_FOUND)
           ELSE LET post == CHOOSE p \in found : TRUE IN
               IF NotAuthor(post, post_data)
               THEN Raises(request, HTTP_203_NON_AUTHORITATIVE_INFORMATION)
               ELSE LET updated == [id |-> post.id, title |-> post_data.title,
                                    content |-> post_data.content,
                                    user_id |-> post_data.user_id]
                    IN /\ posts' = Update(posts, post, updated)
                       /\ UNCHANGED <<users, hist>>
                       /\ Answer(request,
                                 ResponseFor(HTTP_200_OK, post_id, {updated}, users))

\* for filed, value in update_data.items(): setattr(post, filed, value)
ApplyPostUpdate(post, body) ==
    LET update_data == model_dump_exclude_unset(body) IN
    [id |-> post.id,
     title |-> IF "title" \in update_data THEN body.title ELSE post.title,
     content |-> IF "content" \in update_data THEN body.content ELSE post.content,
     user_id |-> post.user_id]

\* PATCH /api/posts/{post_id}
update_post_partal(post_id, body) ==
    /\ Idle
    /\ LET request == [BlankReq EXCEPT !.op = "update_post_partal", !.id = post_id,
                           !.title = body.title, !.content = body.content]
           found == SelectPostById(posts, post_id)
       IN  IF found = {} THEN Raises(request, HTTP_404_NOT_FOUND)
           ELSE LET post == CHOOSE p \in found : TRUE
                    updated == ApplyPostUpdate(post, body)
                IN /\ posts' = Update(posts, post, updated)
                   /\ UNCHANGED <<users, hist>>
                   /\ Answer(request,
                             ResponseFor(HTTP_200_OK, post_id, {updated}, users))

\* DELETE /api/posts/{post_id}
delete_post(post_id) ==
    /\ Idle
    /\ LET request == [BlankReq EXCEPT !.op = "delete_post", !.id = post_id]
           found == SelectPostById(posts, post_id)
       IN  IF found = {} THEN Raises(request, HTTP_404_NOT_FOUND)
           ELSE LET post == CHOOSE p \in found : TRUE IN
               /\ posts' = Delete(posts, post)
               /\ users' = users
               /\ hist' = Recorded([hist EXCEPT
                       !.gonePosts = @ \cup {post_id},
                       !.createdOwner = {c \in @ : c.id # post_id}])
               /\ Answer(request, Returns(HTTP_204_NO_CONTENT, 0, {}, {}))

----------------------------------------------------------------------------
(* Requests handled one at a time *)

\* The response is sent and the request's database session is released
get_db_close ==
    /\ ~Idle
    /\ req' = BlankReq
    /\ resp' = NoResp
    /\ pre' = NoSnapshot
    /\ UNCHANGED <<users, posts, hist, pc, creq, cresp>>

InitRecording(recording) ==
    /\ users = {}
    /\ posts = {}
    /\ req = BlankReq
    /\ resp = NoResp
    /\ pre = NoSnapshot
    /\ hist = [NoHist EXCEPT !.recording = recording]
    /\ pc = [p \in Procs |-> "idle"]
    /\ creq = [p \in Procs |-> [username |-> UNSET, email |-> UNSET]]
    /\ cresp = [p \in Procs |-> 0]

Init == InitRecording("owners")

Next ==
    \/ \E user \in UserCreate : create_user(user)
    \/ \E user_id \in UserIds, body \in UserUpdateBody : update_user(user_id, body)
    \/ \E user_id \in UserIds : delete_user(user_id)
    \/ \E user_id \in UserIds : get_user(user_id)
    \/ \E user_id \in UserIds : get_user_posts(user_id)
    \/ get_posts
    \/ \E post_id \in PostIds : get_post(post_id)
    \/ \E post \in PostCreate : create_post(post)
    \/ \E post_id \in PostIds, post_data \in PostCreate :
            update_post_full(post_id, post_data)
    \/ \E post_id \in PostIds, body \in PostUpdateBody :
            update_post_partal(post_id, body)
    \/ \E post_id \in PostIds : delete_post(post_id)
    \/ get_db_close

Spec == Init /\ [][Next]_vars

\* The same requests, with the names used by create_user recorded
InitNames == InitRecording("names")

SpecNames == InitNames /\ [][Next]_vars

\* The same requests, with the ids deleted recorded
InitDeleted == InitRecording("deleted")

SpecDeleted == InitDeleted /\ [][Next]_vars

----------------------------------------------------------------------------
(* Two create_user requests in flight, interleaved at their database calls *)

\* The request arrives and its body is parsed
conc_receive(p) ==
    /\ pc[p] = "idle"
    /\ \E user \in UserCreate : creq' = [creq EXCEPT ![p] = user]
    /\ pc' = [pc EXCEPT ![p] = "check_username"]
    /\ UNCHANGED <<users, posts, req, resp, pre, hist, cresp>>

\* The username query and the 409 it may raise
conc_check_username(p) ==
    /\ pc[p] = "check_username"
    /\ IF SelectUserByUsername(users, creq[p].username) # {}
       THEN /\ pc' = [pc EXCEPT ![p] = "done"]
            /\ cresp' = [cresp EXCEPT ![p] = HTTP_409_CONFLICT]
       ELSE /\ pc' = [pc EXCEPT ![p] = "check_email"]
            /\ cresp' = cresp
    /\ UNCHANGED <<users, posts, req, resp, pre, hist, creq>>

\* The email query and the 409 it may raise
conc_check_email(p) ==
    /\ pc[p] = "check_email"
    /\ IF SelectUserByEmail(users, creq[p].email) # {}
       THEN /\ pc' = [pc EXCEPT ![p] = "done"]
            /\ cresp' = [cresp EXCEPT ![p] = HTTP_409_CONFLICT]
       ELSE /\ pc' = [pc EXCEPT ![p] = "insert"]
            /\ cresp' = cresp
    /\ UNCHANGED <<users, posts, req, resp, pre, hist, creq>>

\* db.add(new_user); db.commit(); the 201 response
conc_insert(p) ==
    /\ pc[p] = "insert"
    /\ \E id \in NewIds(users, UserIds) :
        users' = Insert(users, [id |-> id, username |-> creq[p].username,
                                email |-> creq[p].email,
                                image_file |-> DefaultImageFile])
    /\ pc' = [pc EXCEPT ![p] = "done"]
    /\ cresp' = [cresp EXCEPT ![p] = HTTP_201_CREATED]
    /\ UNCHANGED <<posts, req, resp, pre, hist, creq>>

NextConc ==
    \/ \E p \in Procs : conc_receive(p)
    \/ \E p \in Procs : conc_check_username(p)
    \/ \E p \in Procs : conc_check_email(p)
    \/ \E p \in Procs : conc_insert(p)

SpecConc == Init /\ [][NextConc]_vars

----------------------------------------------------------------------------
(* Properties *)

UserIdsOf(rows) == {u.id : u \in rows}
UsernamesOf(rows) == {u.username : u \in rows}
EmailsOf(rows) == {u.email : u \in rows}
PostIdsOf(rows) == {p.id : p \in rows}

\* C1: with requests handled one at a time, no two distinct stored users
\* have the same username and no two have the same email.
C1_UniqueUsernameAndEmail ==
    \A u, v \in users :
        u # v => u.username # v.username /\ u.email # v.email

\* C1 witness: two users are stored and an update that would have given one
\* of them the other's email was refused.
C1_Witness ==
    /\ Cardinality(users) = 2
    /\ req.op = "update_user"
    /\ resp.status = HTTP_400_BAD_REQUEST
    /\ req.email \in EmailsOf(users)
    /\ req.username = UNSET

\* C2 as stated: a create-user whose username (or email) an earlier
\* successful create-user carried yields 409, and one whose username and
\* email are both new yields 201 and stores the user.
C2_PreviouslyUsedConflict ==
    req.op = "create_user" =>
        /\ req.username \in pre.hist.usedUsernames => resp.status = HTTP_409_CONFLICT
        /\ req.email \in pre.hist.usedEmails => resp.status = HTTP_409_CONFLICT
        /\ (req.username \notin pre.hist.usedUsernames
                /\ req.email \notin pre.hist.usedEmails)
            => resp.status = HTTP_201_CREATED

\* C2 amended: a create-user whose username (or email) a user stored at the
\* time of the request holds yields 409; one whose username and email no
\* stored user holds yields 201 and stores a user under the returned id with
\* that username and email; and a read-by-id of a stored id returns 200 with
\* the stored user.
C2_StoredConflict ==
    /\ req.op = "create_user" =>
        /\ req.username \in UsernamesOf(pre.users) => resp.status = HTTP_409_CONFLICT
        /\ req.email \in EmailsOf(pre.users) => resp.status = HTTP_409_CONFLICT
        /\ (req.username \notin UsernamesOf(pre.users)
                /\ req.email \notin EmailsOf(pre.users))
            => /\ resp.status = HTTP_201_CREATED
               /\ resp.id \notin UserIdsOf(pre.users)
               /\ \E u \in users :
                    /\ u.id = resp.id
                    /\ u.username = req.username
                    /\ u.email = req.email
                    /\ resp.users = {u}
    /\ (req.op = "get_user" /\ req.id \in UserIdsOf(pre.users)) =>
        /\ resp.status = HTTP_200_OK
        /\ resp.users = {u \in pre.users : u.id = req.id}
        /\ resp.users # {}

\* C2 witness: a create-user is refused for a username a stored user holds,
\* though its email is held by nobody.
C2_Witness ==
    /\ req.op = "create_user"
    /\ req.username \in UsernamesOf(pre.users)
    /\ req.email \notin EmailsOf(pre.users)
    /\ resp.status = HTTP_409_CONFLICT

\* C3: read-user, update-user, delete-user and list-posts-for-user on an id
\* no stored user carries yield 404, whatever the body and the posts stored.
C3_MissingUserNotFound ==
    (/\ req.op \in {"get_user", "update_user", "delete_user", "get_user_posts"}
     /\ req.id \notin UserIdsOf(pre.users))
        => resp.status = HTTP_404_NOT_FOUND

\* C3 witness: list-posts for a user id that no user carries but a stored
\* post still names, while another user is stored, answered 404.
C3_Witness ==
    /\ req.op = "get_user_posts"
    /\ req.id \notin UserIdsOf(pre.users)
    /\ pre.users # {}
    /\ \E p \in pre.posts : p.user_id = req.id
    /\ resp.status = HTTP_404_NOT_FOUND

\* The value a field has after a patch that applies every field the body
\* mentions
AsMentioned(sent, stored) == IF sent = UNSET THEN stored ELSE sent

\* The value a field has after a patch that applies every field the body
\* gives a value other than null
AsGiven(sent, stored) == IF sent \in {UNSET, NULL} THEN stored ELSE sent

\* C4 as stated: a successful PATCH of a user sets exactly the fields the
\* request mentions and leaves the rest, the id, the other users and the
\* posts unchanged.
C4_MentionedFieldsApplied ==
    (req.op = "update_user" /\ resp.status = HTTP_200_OK) =>
        \E old \in pre.users, new \in users :
            /\ old.id = req.id
            /\ new.id = req.id
            /\ new.username = AsMentioned(req.username, old.username)
            /\ new.email = AsMentioned(req.email, old.email)
            /\ new.image_file = AsMentioned(req.image_file, old.image_file)
            /\ users \ {new} = pre.users \ {old}
            /\ posts = pre.posts

\* C4 amended: a successful PATCH of a user sets exactly the fields the
\* request gives a non-null value and leaves every absent or null field, the
\* id, the other users and the posts unchanged.
C4_GivenFieldsApplied ==
    (req.op = "update_user" /\ resp.status = HTTP_200_OK) =>
        \E old \in pre.users, new \in users :
            /\ old.id = req.id
            /\ new.id = req.id
            /\ new.username = AsGiven(req.username, old.username)
            /\ new.email = AsGiven(req.email, old.email)
            /\ new.image_file = AsGiven(req.image_file, old.image_file)
            /\ users \ {new} = pre.users \ {old}
            /\ posts = pre.posts
            /\ resp.users = {new}

\* C4 witness: a PATCH with only an email changed the email of a user who
\* has an image and a post.
C4_Witness ==
    /\ req.op = "update_user"
    /\ resp.status = HTTP_200_OK
    /\ req.username = UNSET
    /\ req.image_file = UNSET
    /\ req.email \in Emails
    /\ \E old \in pre.users, new \in users, p \in posts :
            /\ old.id = req.id
            /\ new.id = req.id
            /\ old.email # new.email
            /\ new.image_file \in ImageFiles
            /\ p.user_id = req.id

\* C5: a create-post whose user_id no stored user carries yields 404 and
\* leaves the stored posts as they were.
C5_CreatePostUnknownUser ==
    (req.op = "create_post" /\ req.user_id \notin UserIdsOf(pre.users)) =>
        /\ resp.status = HTTP_404_NOT_FOUND
        /\ posts = pre.posts

\* C5 witness: a create-post for an unknown user was answered 404 while
\* another user was stored and a post id was free.
C5_Witness ==
    /\ req.op = "create_post"
    /\ req.user_id \notin UserIdsOf(pre.users)
    /\ pre.users # {}
    /\ PostIdsOf(pre.posts) # PostIds
    /\ resp.status = HTTP_404_NOT_FOUND

\* C6: a PUT on a stored post with a user_id other than the post's owner is
\* refused with an HTTPException, never answered 200, and leaves the posts
\* as they were.
C6_OwnerMismatchRejected ==
    (/\ req.op = "update_post_full"
     /\ \E p \in pre.posts : p.id = req.id /\ p.user_id # req.user_id)
        => /\ resp.raised
           /\ resp.status # HTTP_200_OK
           /\ posts = pre.posts

\* C6 witness: a PUT naming another stored user, with a new title, was
\* answered with the author-mismatch status.
C6_Witness ==
    /\ req.op = "update_post_full"
    /\ req.user_id \in UserIdsOf(pre.users)
    /\ \E p \in pre.posts :
            p.id = req.id /\ p.user_id # req.user_id /\ p.title # req.title
    /\ resp.status = HTTP_203_NON_AUTHORITATIVE_INFORMATION

\* C7: a delete of a stored user or post is answered 204 and removes the
\* row; a later delete of the same id, with no successful create of that
\* kind in between, is answered 404.
C7_DeleteTwice ==
    /\ (req.op = "delete_user" /\ req.id \in UserIdsOf(pre.users)) =>
            resp.status = HTTP_204_NO_CONTENT /\ req.id \notin UserIdsOf(users)
    /\ (req.op = "delete_user" /\ req.id \in pre.hist.goneUsers) =>
            resp.status = HTTP_404_NOT_FOUND
    /\ (req.op = "delete_post" /\ req.id \in PostIdsOf(pre.posts)) =>
            resp.status = HTTP_204_NO_CONTENT /\ req.id \notin PostIdsOf(posts)
    /\ (req.op = "delete_post" /\ req.id \in pre.hist.gonePosts) =>
            resp.status = HTTP_404_NOT_FOUND

\* C7 witness: a second delete of a post id was answered 404 after a user
\* had been deleted too, with other rows still stored.
C7_Witness ==
    /\ req.op = "delete_post"
    /\ req.id \in pre.hist.gonePosts
    /\ pre.hist.goneUsers # {}
    /\ users # {}
    /\ resp.status = HTTP_404_NOT_FOUND

\* C8 as stated: every stored post's user_id is the id of a stored user.
C8_EveryPostHasOwner ==
    \A p \in posts : p.user_id \in UserIdsOf(users)

\* C9: two create_user requests with the same username (or email) that both
\* return 201 leave two distinct stored users sharing it.
C9_BothCreatedShare ==
    \A p, q \in Procs :
        (/\ p # q
         /\ pc[p] = "done" /\ pc[q] = "done"
         /\ cresp[p] = HTTP_201_CREATED /\ cresp[q] = HTTP_201_CREATED)
        => /\ creq[p].username = creq[q].username =>
                \E u, v \in users :
                    u # v /\ u.username = creq[p].username
                          /\ v.username = creq[p].username
           /\ creq[p].email = creq[q].email =>
                \E u, v \in users :
                    u # v /\ u.email = creq[p].email /\ v.email = creq[p].email

\* C9 witness: both requests carried the same username, both returned 201,
\* and two stored users share the username.
C9_Witness ==
    /\ \A p \in {1, 2} : pc[p] = "done" /\ cresp[p] = HTTP_201_CREATED
    /\ creq[1].username = creq[2].username
    /\ \E u, v \in users : u.id # v.id /\ u.username = v.username

\* C10: every stored post's user_id is the user_id it was created with.
C10_OwnerNeverChanges ==
    \A p \in posts :
        \E c \in hist.createdOwner : c.id = p.id /\ c.user_id = p.user_id

\* C10 witness: a PUT was answered 200, changed the post's title, and the
\* post still has the owner it was created with.
C10_Witness ==
    /\ req.op = "update_post_full"
    /\ resp.status = HTTP_200_OK
    /\ \E old \in pre.posts, new \in posts :
            /\ old.id = req.id /\ new.id = req.id
            /\ old.title # new.title
            /\ [id |-> new.id, user_id |-> new.user_id] \in hist.createdOwner

====
